---------------------------- MODULE Spec2Model ----------------------------
(***************************************************************************)
(* The S3 transport of electron-simple-publisher (lib/transport/s3.js).    *)
(*                                                                         *)
(* Strings are sequences of one-character strings, so that split, match,   *)
(* startsWith, basename and join are computed character by character.      *)
(* The storage service is the environment: every request is answered       *)
(* later, in any order, with success or with a failure.                    *)
(***************************************************************************)
EXTENDS Integers, Sequences, FiniteSets, TLC

(* ------------------------------ bounds --------------------------------- *)

\* Number of operation calls the pipeline issues on the transport.
MaxCalls == 2

\* Number of keys of a listing that fetchBuildsList is examined on.
MaxListed == 3

(* ------------------------------ strings -------------------------------- *)

\* The characters \w matches, among those the model uses.
WordChars ==
  {"a", "d", "e", "f", "g", "h", "j", "n", "o", "p", "s", "t", "u", "w", "x",
   "1", "6", "_"}

Slash == "/"

Hyphen == "-"

Dot == "."

\* The characters \s matches, among those the model uses.
SpaceChars == {" "}

\* String.prototype.startsWith
StartsWith(s, prefix) ==
  /\ Len(prefix) <= Len(s)
  /\ \A i \in 1..Len(prefix) : s[i] = prefix[i]

\* Array.prototype.indexOf on an array that holds the item
RECURSIVE IndexOfFrom(_, _, _)
IndexOfFrom(self, item, i) ==
  IF i > Len(self) THEN 0
  ELSE IF self[i] = item THEN i
  ELSE IndexOfFrom(self, item, i + 1)

IndexOf(self, item) == IndexOfFrom(self, item, 1)

\* Array.prototype.filter, for the three callbacks the transport passes.
\* .filter(key => key.match(...)) is FilterPattern, .filter((item, pos, self)
\* => self.indexOf(item) === pos) is FilterFirst (self is the whole array)
\* and .filter(key => key.startsWith(buildId)) is FilterPrefix; they follow
\* the operators they use.

\* key.split('/')[0]
RECURSIVE FirstSegmentFrom(_, _)
FirstSegmentFrom(key, i) ==
  IF i > Len(key) \/ key[i] = Slash THEN SubSeq(key, 1, i - 1)
  ELSE FirstSegmentFrom(key, i + 1)

FirstSegment(key) == FirstSegmentFrom(key, 1)

\* key.match(/^\w+-\w+-\w+-[\w.]+$/): seg is the group being read (0..3) and
\* n the number of characters of it read so far.
RECURSIVE MatchFrom(_, _, _, _)
MatchFrom(s, i, seg, n) ==
  IF i > Len(s) THEN seg = 3 /\ n >= 1
  ELSE IF s[i] \in WordChars \/ (seg = 3 /\ s[i] = Dot)
       THEN MatchFrom(s, i + 1, seg, n + 1)
  ELSE IF s[i] = Hyphen /\ seg < 3 /\ n >= 1
       THEN MatchFrom(s, i + 1, seg + 1, 0)
  ELSE FALSE

MatchesBuildPattern(s) == MatchFrom(s, 1, 0, 0)

RECURSIVE FilterPattern(_)
FilterPattern(s) ==
  IF s = <<>> THEN <<>>
  ELSE LET n == Len(s)
           front == FilterPattern(SubSeq(s, 1, n - 1))
       IN IF MatchesBuildPattern(s[n]) THEN Append(front, s[n]) ELSE front

RECURSIVE FilterFirstFrom(_, _)
FilterFirstFrom(self, pos) ==
  IF pos > Len(self) THEN <<>>
  ELSE IF IndexOf(self, self[pos]) = pos
       THEN <<self[pos]>> \o FilterFirstFrom(self, pos + 1)
  ELSE FilterFirstFrom(self, pos + 1)

FilterFirst(self) == FilterFirstFrom(self, 1)

RECURSIVE FilterPrefix(_, _)
FilterPrefix(s, buildId) ==
  IF s = <<>> THEN <<>>
  ELSE LET n == Len(s)
           front == FilterPrefix(SubSeq(s, 1, n - 1), buildId)
       IN IF StartsWith(s[n], buildId) THEN Append(front, s[n]) ELSE front

\* Array.prototype.map(key => key.split('/')[0])
MapFirstSegment(s) == [i \in 1..Len(s) |-> FirstSegment(s[i])]

\* path.basename (POSIX): trailing slashes are dropped, then the part after
\* the last slash is kept.
RECURSIVE StripTrailingSlashes(_)
StripTrailingSlashes(p) ==
  IF p # <<>> /\ p[Len(p)] = Slash
  THEN StripTrailingSlashes(SubSeq(p, 1, Len(p) - 1))
  ELSE p

RECURSIVE LastSegmentFrom(_, _)
LastSegmentFrom(p, i) ==
  IF i = 0 \/ p[i] = Slash THEN SubSeq(p, i + 1, Len(p))
  ELSE LastSegmentFrom(p, i - 1)

Basename(p) ==
  LET q0 == StripTrailingSlashes(p) IN LastSegmentFrom(q0, Len(q0))

\* The segments of a path between slashes.
RECURSIVE SplitSlash(_, _, _)
SplitSlash(p, i, cur) ==
  IF i > Len(p) THEN <<cur>>
  ELSE IF p[i] = Slash THEN <<cur>> \o SplitSlash(p, i + 1, <<>>)
  ELSE SplitSlash(p, i + 1, Append(cur, p[i]))

\* path.posix.normalize of a relative path, on its segments: empty and "."
\* segments are dropped, ".." removes the segment before it (or stays when
\* there is none).
RECURSIVE NormalizeSegments(_, _)
NormalizeSegments(segs, out) ==
  IF segs = <<>> THEN out
  ELSE LET s == Head(segs)
           rest == Tail(segs)
       IN IF s = <<>> \/ s = <<Dot>> THEN NormalizeSegments(rest, out)
          ELSE IF s = <<Dot, Dot>>
               THEN IF out # <<>> /\ out[Len(out)] # <<Dot, Dot>>
                    THEN NormalizeSegments(rest, SubSeq(out, 1, Len(out) - 1))
                    ELSE NormalizeSegments(rest, Append(out, s))
          ELSE NormalizeSegments(rest, Append(out, s))

RECURSIVE JoinSlash(_)
JoinSlash(segs) ==
  IF segs = <<>> THEN <<>>
  ELSE IF Len(segs) = 1 THEN segs[1]
  ELSE segs[1] \o <<Slash>> \o JoinSlash(Tail(segs))

\* path.posix.join(a, b) for relative a: the non-empty arguments are joined
\* with a slash and the result is normalized; an empty result is ".".
PosixJoin(a, b) ==
  LET joined == IF a = <<>> THEN b
                ELSE IF b = <<>> THEN a
                ELSE a \o <<Slash>> \o b
      norm == JoinSlash(NormalizeSegments(SplitSlash(joined, 1, <<>>), <<>>))
  IN IF norm = <<>> THEN <<Dot>> ELSE norm

(* --------------------- the abstract transport -------------------------- *)

\* An optional string is <<>> (undefined, or the property is absent) or <<s>>.
\* A value is falsy in JavaScript when it is undefined or the empty string.
Truthy(opt) == opt # <<>> /\ opt[1] # <<>>

\* getBuildId(build): the identifier name-version-platform-arch of a build.
GetBuildId(build) ==
  build.name \o <<Hyphen>> \o build.version \o <<Hyphen>>
    \o build.platform \o <<Hyphen>> \o build.arch

\* normalizeFileName(name): a name of word characters, dots and hyphens is
\* kept as it is; white space becomes a hyphen.
NormalizeFileName(name) ==
  [i \in 1..Len(name) |-> IF name[i] \in SpaceChars THEN Hyphen ELSE name[i]]

\* The public URL convention of the storage provider.
PublicUrl(bucket, key) ==
  <<"https://">> \o bucket \o <<".s3.amazonaws.com/">> \o key

UpdatesJsonKey == <<"u", "p", "d", "a", "t", "e", "s", ".", "j", "s", "o", "n">>

\* getUpdatesJsonUrl(): the manifest's URL, built like an artifact's URL.
GetUpdatesJsonUrl(bucket) == PublicUrl(bucket, UpdatesJsonKey)

(* ----------------------------- s3.js ----------------------------------- *)

UpdatesSuffix == <<"-", "u", "p", "d", "a", "t", "e", "s">>

\* A faulty variant of MergeAws: Object.assign(options.aws, awsAuth), the arguments
\* exchanged, so that the top-level credentials replace those of aws.
MergeAwsReversed(t) ==
  [accessKeyId |-> t.accessKeyId, secretAccessKey |-> t.secretAccessKey,
   signatureVersion |-> <<"v4">>]

\* Object.assign(awsAuth, options.aws): a property options.aws holds replaces
\* the one awsAuth took from the top-level options.
MergeAws(t) ==
  [accessKeyId |-> IF t.aws.accessKeyId # <<>> THEN t.aws.accessKeyId
                   ELSE t.accessKeyId,
   secretAccessKey |-> IF t.aws.secretAccessKey # <<>> THEN t.aws.secretAccessKey
                       ELSE t.secretAccessKey,
   signatureVersion |-> <<"v4">>]

\* The bucket after lines 38-45: a falsy bucket becomes the default name, and
\* a string becomes { Bucket: string }.
NormalizeBucket(t, packageName) ==
  LET b1 == IF t.bucket.kind = "absent"
               \/ (t.bucket.kind = "string" /\ ~Truthy(t.bucket.name))
            THEN [kind |-> "string", name |-> <<packageName \o UpdatesSuffix>>]
            ELSE t.bucket
  IN IF b1.kind = "string" THEN [kind |-> "object", name |-> b1.name] ELSE b1

\* normalizeOptions(): the error thrown ("none" when it returns) and the
\* options it leaves.
NormalizeOptions(c) ==
  LET aws == MergeAws(c.transport)
      bucket == NormalizeBucket(c.transport, c.packageName)
  IN IF ~Truthy(aws.accessKeyId)
     THEN [error |-> "accessKeyId is not set", aws |-> aws,
           bucket |-> c.transport.bucket]
     ELSE IF ~Truthy(aws.secretAccessKey)
     THEN [error |-> "secretAccessKey is not set", aws |-> aws,
           bucket |-> c.transport.bucket]
     ELSE IF ~Truthy(bucket.name)
     THEN [error |-> "bucket is not set", aws |-> aws, bucket |-> bucket]
     ELSE [error |-> "none", aws |-> aws, bucket |-> bucket]

\* A faulty variant of GetRemoteFilePath: the local directories are not stripped.
GetRemoteFilePathWithDirs(localFilePath, build) ==
  PosixJoin(GetBuildId(build), NormalizeFileName(localFilePath))

\* getRemoteFilePath(localFilePath, build)
GetRemoteFilePath(localFilePath, build) ==
  PosixJoin(GetBuildId(build), NormalizeFileName(Basename(localFilePath)))

\* A faulty variant of Stringify: JSON.stringify(data), without the indentation.
StringifyCompact(data) ==
  IF data = <<>> THEN <<"{", "}">>
  ELSE <<"{", "\"", data[1][1], "\"", ":", data[1][2], "}">>

\* JSON.stringify(data, null, '  ') of an object whose values are numbers;
\* data is the sequence of its <<name, digit>> properties.
RECURSIVE StringifyProps(_)
StringifyProps(props) ==
  IF props = <<>> THEN <<>>
  ELSE <<"\n", " ", " ", "\"", props[1][1], "\"", ":", " ", props[1][2]>>
         \o (IF Len(props) > 1 THEN <<",">> ELSE <<>>)
         \o StringifyProps(Tail(props))

Stringify(data) ==
  IF data = <<>> THEN <<"{", "}">>
  ELSE <<"{">> \o StringifyProps(data) \o <<"\n", "}">>

\* A faulty variant of BuildsOf: the last filter, which drops repeated builds, is left
\* out.
BuildsOfRepeated(contentKeys) == FilterPattern(MapFirstSegment(contentKeys))

\* fetchBuildsList's second callback (lines 113-119), on response.Contents'
\* keys.
BuildsOf(contentKeys) ==
  FilterFirst(FilterPattern(MapFirstSegment(contentKeys)))

\* A faulty variant of KeysToRemove: the keys are not filtered.
KeysToRemoveAll(contentKeys, buildId) == contentKeys

\* removeBuild's second callback (lines 133-137).
KeysToRemove(contentKeys, buildId) == FilterPrefix(contentKeys, buildId)

(* --------------------------- the inputs -------------------------------- *)

BuildX == [name |-> <<"a">>, version |-> <<"1">>, platform |-> <<"w">>,
           arch |-> <<"x">>]

\* A build whose identifier has BuildX's identifier as a proper prefix.
BuildX6 == [name |-> <<"a">>, version |-> <<"1">>, platform |-> <<"w">>,
            arch |-> <<"x", "6">>]

Builds == {BuildX, BuildX6}

NoBuild == [name |-> <<>>, version |-> <<>>, platform |-> <<>>, arch |-> <<>>]

\* Paths of readable local files: "/d/f" and "g h".
FilePaths == {<<"/", "d", "/", "f">>, <<"g", " ", "h">>}

\* The manifests { "f": 1 } and { "f": 6 }.
Manifests == {<< <<"f", "1">> >>, << <<"f", "6">> >>}

\* fs.createReadStream(filePath): what the file holds.
FileBody(filePath) == <<"file">> \o filePath

OldBody == <<"old">>

\* Keys a bucket may hold from earlier runs: a file of each build and a
\* top-level object whose name starts with BuildX's identifier.
InitialKeys ==
  {GetBuildId(BuildX) \o <<"/", "f">>,
   GetBuildId(BuildX6) \o <<"/", "f">>,
   GetBuildId(BuildX) \o <<".", "d">>}

InitialContents == {[k \in ks |-> OldBody] : ks \in SUBSET InitialKeys}

\* The order in which the storage service lists the keys the model uses:
\* by the code points of their characters ('-' < '.' < '/' < digits < letters).
LexOrder ==
  <<GetBuildId(BuildX) \o <<".", "d">>,
    GetBuildId(BuildX) \o <<"/", "f">>,
    GetBuildId(BuildX) \o <<"/", "g", "-", "h">>,
    GetBuildId(BuildX6) \o <<"/", "f">>,
    GetBuildId(BuildX6) \o <<"/", "g", "-", "h">>,
    UpdatesJsonKey>>

\* Keys of the listings fetchBuildsList is examined on: two files of one
\* build, a file of another, a top-level file, a key that starts with a
\* slash, and a file under "a-1.6-w-x", whose second group holds a dot.
ListKeys ==
  {GetBuildId(BuildX) \o <<"/", "f">>,
   GetBuildId(BuildX) \o <<"/", "g">>,
   GetBuildId(BuildX6) \o <<"/", "f">>,
   GetBuildId(BuildX),
   <<"/", "f">>,
   UpdatesJsonKey,
   <<"a", "-", "1", ".", "6", "-", "w", "-", "x", "/", "f">>}

ListContents ==
  {[k \in ks |-> OldBody] : ks \in {x \in SUBSET ListKeys : Cardinality(x) <= MaxListed}}

OptStrings == {<<>>, << <<>> >>, << <<"k">> >>}

BucketSpecs ==
  {[kind |-> "absent", name |-> <<>>]}
    \cup {[kind |-> "string", name |-> <<n>>] : n \in {<<>>, <<"b">>}}
    \cup {[kind |-> "object", name |-> n] : n \in {<<>>, << <<>> >>, << <<"b">> >>}}

\* Every raw configuration: each credential absent, empty or set, at the top
\* level and in aws; the bucket absent, a string or a descriptor.
RawConfigs ==
  [packageName : {<<"a">>},
   transport : [accessKeyId : OptStrings, secretAccessKey : OptStrings,
                aws : [accessKeyId : OptStrings, secretAccessKey : OptStrings],
                bucket : BucketSpecs]]

\* The configuration of the README: both credentials, no bucket, no aws.
ReadmeConfig ==
  [packageName |-> <<"a">>,
   transport |-> [accessKeyId |-> << <<"k">> >>, secretAccessKey |-> << <<"k">> >>,
                  aws |-> [accessKeyId |-> <<>>, secretAccessKey |-> <<>>],
                  bucket |-> [kind |-> "absent", name |-> <<>>]]]

\* All orders in which a listing may return the keys of S.
RECURSIVE Orders(_)
Orders(S) ==
  IF S = {} THEN {<<>>}
  ELSE UNION {{<<x>> \o rest : rest \in Orders(S \ {x})} : x \in S}

(* ------------------------------ state ---------------------------------- *)

VARIABLES
  commandOptions,  \* the raw configuration the constructor is given
  phase,           \* "new", "failed" (the constructor threw), "constructed", "inited"
  options,         \* this.options after normalizeOptions()
  q,               \* this.q: "none", "head", "create", "resolved", "rejected"
  headResult,      \* answer to headBucket: "none", "ok", "NotFound", "Other"
  createResult,    \* answer to createBucket: "none", "ok", "fail"
  headCount,       \* headBucket requests issued
  createCount,     \* createBucket requests issued
  exists,          \* the bucket exists at the storage service
  objects,         \* the bucket's objects: key -> body
  listOrder,       \* the keys in the order in which the service lists them
  calls,           \* the operation calls issued, in order of issue
  waiters          \* calls whose callback on this.q has not run yet, in order

vars == <<commandOptions, phase, options, q, headResult, createResult,
          headCount, createCount, exists, objects, listOrder, calls, waiters>>

NoOptions == [error |-> "none", aws |-> MergeAws(ReadmeConfig.transport),
              bucket |-> [kind |-> "absent", name |-> <<>>]]

BucketName == options.bucket.name[1]

Keys(objs) == DOMAIN objs

\* The keys of response.Contents: the bucket's keys, in the service's order.
RECURSIVE Select(_, _)
Select(order, ks) ==
  IF order = <<>> THEN <<>>
  ELSE IF Head(order) \in ks THEN <<Head(order)>> \o Select(Tail(order), ks)
  ELSE Select(Tail(order), ks)

Listing(objs) == Select(listOrder, Keys(objs))

\* putObject applied by the storage service.
Put(objs, key, body) ==
  [k \in Keys(objs) \cup {key} |-> IF k = key THEN body ELSE objs[k]]

\* deleteObjects applied by the storage service.
Delete(objs, keys) ==
  [k \in Keys(objs) \ {keys[i] : i \in 1..Len(keys)} |-> objs[k]]

\* A call as it is issued. Three fields record history for the properties
\* below: early (issued while this.q was pending), raced and overlapped.
NewCall(op, filePath, build, data) ==
  [op |-> op, filePath |-> filePath, build |-> build, data |-> data,
   pc |-> "wait", key |-> <<>>, body |-> <<>>, listed |-> <<>>, keys |-> <<>>,
   puts |-> 0, lists |-> 0, deletes |-> 0,
   result |-> <<>>, error |-> "none",
   early |-> (q \in {"head", "create"}), raced |-> FALSE, overlapped |-> FALSE]

Done(c) == c.pc \in {"resolved", "rejected"}

TypeOK ==
  /\ phase \in {"new", "failed", "constructed", "inited"}
  /\ q \in {"none", "head", "create", "resolved", "rejected"}
  /\ headResult \in {"none", "ok", "NotFound", "Other"}
  /\ createResult \in {"none", "ok", "fail"}
  /\ exists \in BOOLEAN
  /\ Len(calls) <= MaxCalls
  /\ \A i \in 1..Len(waiters) : waiters[i] \in 1..Len(calls)
  /\ \A k \in Keys(objects) : \E i \in 1..Len(listOrder) : listOrder[i] = k

(* ------------------------- construction, init -------------------------- *)

\* new S3Transport(options): the abstract constructor keeps the options and
\* normalizeOptions() checks them; an error leaves no transport.
Construct ==
  /\ phase = "new"
  /\ LET n == NormalizeOptions(commandOptions)
     IN /\ options' = n
        /\ phase' = IF n.error = "none" THEN "constructed" ELSE "failed"
  /\ UNCHANGED <<commandOptions, q, headResult, createResult, headCount,
                 createCount, exists, objects, calls, waiters, listOrder>>

\* init(): this.q = this.createBucket(this.options.bucket), which requests
\* headBucket. The pipeline calls init() once, before the operations.
InitTransport ==
  /\ phase = "constructed"
  /\ phase' = "inited"
  /\ q' = "head"
  /\ headCount' = headCount + 1
  /\ UNCHANGED <<commandOptions, options, headResult, createResult,
                 createCount, exists, objects, calls, waiters, listOrder>>

\* headBucket succeeds: this.q resolves and createBucket is not requested.
HeadBucketOk ==
  /\ q = "head"
  /\ exists
  /\ headResult' = "ok"
  /\ q' = "resolved"
  /\ UNCHANGED <<commandOptions, phase, options, createResult, headCount,
                 createCount, exists, objects, calls, waiters, listOrder>>

\* A faulty variant of HeadBucketFail: .catch(() => {}), the failure is swallowed and
\* createBucket is not requested.
HeadBucketFailSwallowed(reason) ==
  /\ q = "head"
  /\ reason = "NotFound" => ~exists
  /\ headResult' = reason
  /\ q' = "resolved"
  /\ UNCHANGED <<commandOptions, phase, options, createResult, headCount,
                 createCount, exists, objects, calls, waiters, listOrder>>

\* headBucket fails, because the bucket is absent ("NotFound") or for another
\* reason ("Other": no access, no network); .catch(() => ...) takes no
\* argument and requests createBucket either way.
HeadBucketFail(reason) ==
  /\ q = "head"
  /\ reason = "NotFound" => ~exists
  /\ headResult' = reason
  /\ q' = "create"
  /\ createCount' = createCount + 1
  /\ UNCHANGED <<commandOptions, phase, options, createResult, headCount,
                 exists, objects, calls, waiters, listOrder>>

\* createBucket succeeds: this.q resolves.
CreateBucketOk ==
  /\ q = "create"
  /\ createResult' = "ok"
  /\ exists' = TRUE
  /\ q' = "resolved"
  /\ UNCHANGED <<commandOptions, phase, options, headResult, headCount,
                 createCount, objects, calls, waiters, listOrder>>

\* A faulty variant of CreateBucketFail: a second .catch swallows the error of
\* createBucket and this.q resolves.
CreateBucketFailSwallowed ==
  /\ q = "create"
  /\ createResult' = "fail"
  /\ q' = "resolved"
  /\ UNCHANGED <<commandOptions, phase, options, headResult, headCount,
                 createCount, exists, objects, calls, waiters, listOrder>>

\* createBucket fails: this.q is rejected with its error.
CreateBucketFail ==
  /\ q = "create"
  /\ createResult' = "fail"
  /\ q' = "rejected"
  /\ UNCHANGED <<commandOptions, phase, options, headResult, headCount,
                 createCount, exists, objects, calls, waiters, listOrder>>

(* --------------------------- the operations ---------------------------- *)

\* An operation is called: it registers its first callback on this.q and
\* returns the promise.
Issue(call) ==
  /\ phase = "inited"
  /\ Len(calls) < MaxCalls
  /\ calls' = Append(calls, call)
  /\ waiters' = Append(waiters, Len(calls) + 1)
  /\ UNCHANGED <<commandOptions, phase, options, q, headResult, createResult,
                 headCount, createCount, exists, objects, listOrder>>

UploadFile(filePath, build) ==
  Issue([NewCall("uploadFile", filePath, build, <<>>)
           EXCEPT !.key = GetRemoteFilePath(filePath, build)])

\* A push issued while another push has not completed is marked, and so is
\* the other push.
PushUpdatesJson(data) ==
  /\ phase = "inited"
  /\ Len(calls) < MaxCalls
  /\ LET open == {i \in 1..Len(calls) :
                    calls[i].op = "pushUpdatesJson" /\ ~Done(calls[i])}
         marked == [i \in 1..Len(calls) |->
                      IF i \in open THEN [calls[i] EXCEPT !.overlapped = TRUE]
                      ELSE calls[i]]
     IN calls' = Append(marked,
                        [NewCall("pushUpdatesJson", <<>>, NoBuild, data)
                           EXCEPT !.overlapped = (open # {})])
  /\ waiters' = Append(waiters, Len(calls) + 1)
  /\ UNCHANGED <<commandOptions, phase, options, q, headResult, createResult,
                 headCount, createCount, exists, objects, listOrder>>

FetchBuildsList == Issue(NewCall("fetchBuildsList", <<>>, NoBuild, <<>>))

RemoveBuild(build) == Issue(NewCall("removeBuild", <<>>, build, <<>>))

\* this.q is rejected: the callbacks of the oldest waiting call are skipped
\* and its promise is rejected with the error of this.q.
ThenRejected ==
  /\ waiters # <<>>
  /\ q = "rejected"
  /\ calls' = [calls EXCEPT ![Head(waiters)].pc = "rejected",
                            ![Head(waiters)].error = "CreateBucketError"]
  /\ waiters' = Tail(waiters)
  /\ UNCHANGED <<commandOptions, phase, options, q, headResult, createResult,
                 headCount, createCount, exists, objects, listOrder>>

\* A faulty variant of QResolvedFor: the request is sent without waiting for this.q.
QNotAwaitedFor(op) ==
  /\ waiters # <<>>
  /\ q # "rejected"
  /\ calls[Head(waiters)].op = op

\* The guard of a callback registered with this.q.then(...): this.q is
\* resolved and the call is the oldest one waiting.
QResolvedFor(op) ==
  /\ waiters # <<>>
  /\ q = "resolved"
  /\ calls[Head(waiters)].op = op

\* uploadFile's first callback: putObject of the file to the remote path.
UploadThen ==
  /\ QResolvedFor("uploadFile")
  /\ LET c == Head(waiters)
     IN calls' = [calls EXCEPT ![c].pc = "put",
                               ![c].body = FileBody(calls[c].filePath),
                               ![c].puts = @ + 1]
  /\ waiters' = Tail(waiters)
  /\ UNCHANGED <<commandOptions, phase, options, q, headResult, createResult,
                 headCount, createCount, exists, objects, listOrder>>

\* pushUpdatesJson's first callback: putObject of the serialized data to
\* 'updates.json'.
PushThen ==
  /\ QResolvedFor("pushUpdatesJson")
  /\ LET c == Head(waiters)
     IN calls' = [calls EXCEPT ![c].pc = "put",
                               ![c].key = UpdatesJsonKey,
                               ![c].body = Stringify(calls[c].data),
                               ![c].puts = @ + 1]
  /\ waiters' = Tail(waiters)
  /\ UNCHANGED <<commandOptions, phase, options, q, headResult, createResult,
                 headCount, createCount, exists, objects, listOrder>>

\* The first callback of fetchBuildsList and of removeBuild: listObjectsV2.
ListThen(op) ==
  /\ QResolvedFor(op)
  /\ calls' = [calls EXCEPT ![Head(waiters)].pc = "list",
                            ![Head(waiters)].lists = @ + 1]
  /\ waiters' = Tail(waiters)
  /\ UNCHANGED <<commandOptions, phase, options, q, headResult, createResult,
                 headCount, createCount, exists, objects, listOrder>>

FetchThen == ListThen("fetchBuildsList")

RemoveThen == ListThen("removeBuild")

(* ---------------------- the storage service answers -------------------- *)

\* A put under a build's identifier that the service applies after a
\* removeBuild of that build has listed the bucket is recorded in that call.
MarkRaced(cs, key) ==
  [i \in 1..Len(cs) |->
     IF /\ cs[i].op = "removeBuild"
        /\ cs[i].pc \in {"delete", "resolved"}
        /\ StartsWith(key, GetBuildId(cs[i].build))
     THEN [cs[i] EXCEPT !.raced = TRUE]
     ELSE cs[i]]

\* The value a call's promise resolves to after its putObject: uploadFile's
\* last callback (line 83) and pushUpdatesJson's (line 101).
PutResult(call) ==
  IF call.op = "uploadFile" THEN PublicUrl(BucketName, call.key)
  ELSE GetUpdatesJsonUrl(BucketName)

\* putObject of call c succeeds: the object is stored and the call resolves.
PutObjectOk(c) ==
  /\ c \in 1..Len(calls)
  /\ calls[c].pc = "put"
  /\ objects' = Put(objects, calls[c].key, calls[c].body)
  /\ calls' = [MarkRaced(calls, calls[c].key)
                 EXCEPT ![c].pc = "resolved", ![c].result = PutResult(calls[c])]
  /\ UNCHANGED <<commandOptions, phase, options, q, headResult, createResult,
                 headCount, createCount, exists, waiters, listOrder>>

\* A request of call c fails: the remaining callbacks are skipped and the
\* call is rejected with the storage error.
RequestFail(c, at, error) ==
  /\ c \in 1..Len(calls)
  /\ calls[c].pc = at
  /\ calls' = [calls EXCEPT ![c].pc = "rejected", ![c].error = error]
  /\ UNCHANGED <<commandOptions, phase, options, q, headResult, createResult,
                 headCount, createCount, exists, objects, waiters, listOrder>>

PutObjectFail(c) == RequestFail(c, "put", "PutObjectError")

ListObjectsFail(c) == RequestFail(c, "list", "ListObjectsError")

DeleteObjectsFail(c) == RequestFail(c, "delete", "DeleteObjectsError")

\* listObjectsV2 of a fetchBuildsList call answers with the bucket's keys:
\* the call resolves to the builds among them.
FetchListOk(c) ==
  /\ c \in 1..Len(calls)
  /\ calls[c].op = "fetchBuildsList"
  /\ calls[c].pc = "list"
  /\ calls' = [calls EXCEPT ![c].pc = "resolved",
                            ![c].listed = Listing(objects),
                            ![c].result = BuildsOf(Listing(objects))]
  /\ UNCHANGED <<commandOptions, phase, options, q, headResult, createResult,
                 headCount, createCount, exists, objects, waiters, listOrder>>

\* A faulty variant of RemoveListOk: the promise of deleteObjects is not returned, and
\* the call resolves without waiting for the delete.
RemoveListOkNotAwaited(c) ==
  /\ c \in 1..Len(calls)
  /\ calls[c].op = "removeBuild"
  /\ calls[c].pc = "list"
  /\ calls' = [calls EXCEPT ![c].pc = "resolved",
                            ![c].listed = Listing(objects),
                            ![c].keys = FilterPrefix(Listing(objects),
                                                     GetBuildId(calls[c].build)),
                            ![c].deletes = @ + 1]
  /\ UNCHANGED <<commandOptions, phase, options, q, headResult, createResult,
                 headCount, createCount, exists, objects, waiters, listOrder>>

\* listObjectsV2 of a removeBuild call answers: the keys are filtered and
\* deleteObjects is requested for them.
RemoveListOk(c) ==
  /\ c \in 1..Len(calls)
  /\ calls[c].op = "removeBuild"
  /\ calls[c].pc = "list"
  /\ calls' = [calls EXCEPT ![c].pc = "delete",
                            ![c].listed = Listing(objects),
                            ![c].keys = KeysToRemove(Listing(objects),
                                                     GetBuildId(calls[c].build)),
                            ![c].deletes = @ + 1]
  /\ UNCHANGED <<commandOptions, phase, options, q, headResult, createResult,
                 headCount, createCount, exists, objects, waiters, listOrder>>

\* deleteObjects of call c succeeds: the keys are removed, the call resolves.
DeleteObjectsOk(c) ==
  /\ c \in 1..Len(calls)
  /\ calls[c].pc = "delete"
  /\ objects' = Delete(objects, calls[c].keys)
  /\ calls' = [calls EXCEPT ![c].pc = "resolved", ![c].result = <<"deleted">>]
  /\ UNCHANGED <<commandOptions, phase, options, q, headResult, createResult,
                 headCount, createCount, exists, waiters, listOrder>>

(* --------------------------- specifications ---------------------------- *)

InitCommon ==
  /\ phase = "new"
  /\ options = NoOptions
  /\ q = "none"
  /\ headResult = "none"
  /\ createResult = "none"
  /\ headCount = 0
  /\ createCount = 0
  /\ calls = <<>>
  /\ waiters = <<>>

\* The transport is about to be constructed from the README's configuration;
\* the bucket is absent, or exists and holds objects of earlier runs.
Init ==
  /\ InitCommon
  /\ commandOptions = ReadmeConfig
  /\ exists \in BOOLEAN
  /\ objects \in IF exists THEN InitialContents ELSE {<<>>}
  /\ listOrder = LexOrder

Provision ==
  \/ Construct
  \/ InitTransport
  \/ HeadBucketOk
  \/ \E reason \in {"NotFound", "Other"} : HeadBucketFail(reason)
  \/ CreateBucketOk
  \/ CreateBucketFail

Operate ==
  \/ \E f \in FilePaths, b \in Builds : UploadFile(f, b)
  \/ \E d \in Manifests : PushUpdatesJson(d)
  \/ FetchBuildsList
  \/ \E b \in Builds : RemoveBuild(b)
  \/ ThenRejected
  \/ UploadThen
  \/ PushThen
  \/ FetchThen
  \/ RemoveThen

Answer ==
  \/ \E c \in 1..MaxCalls : PutObjectOk(c)
  \/ \E c \in 1..MaxCalls : PutObjectFail(c)
  \/ \E c \in 1..MaxCalls : FetchListOk(c)
  \/ \E c \in 1..MaxCalls : RemoveListOk(c)
  \/ \E c \in 1..MaxCalls : ListObjectsFail(c)
  \/ \E c \in 1..MaxCalls : DeleteObjectsOk(c)
  \/ \E c \in 1..MaxCalls : DeleteObjectsFail(c)

Next == Provision \/ Operate \/ Answer

Spec == Init /\ [][Next]_vars

\* Construction from every raw configuration, followed by init().
InitConfig ==
  /\ InitCommon
  /\ commandOptions \in RawConfigs
  /\ exists \in BOOLEAN
  /\ objects = <<>>
  /\ listOrder = LexOrder

SpecConfig == InitConfig /\ [][Provision]_vars

\* fetchBuildsList on every listing of up to MaxListed keys, in every order:
\* the transport is initialized and the bucket provisioned.
InitList ==
  /\ commandOptions = ReadmeConfig
  /\ phase = "inited"
  /\ options = NormalizeOptions(ReadmeConfig)
  /\ q = "resolved"
  /\ headResult = "ok"
  /\ createResult = "none"
  /\ headCount = 1
  /\ createCount = 0
  /\ exists = TRUE
  /\ objects \in ListContents
  /\ listOrder \in Orders(Keys(objects))
  /\ calls = <<>>
  /\ waiters = <<>>

NextList ==
  \/ FetchBuildsList
  \/ FetchThen
  \/ \E c \in 1..MaxCalls : FetchListOk(c)
  \/ \E c \in 1..MaxCalls : ListObjectsFail(c)

SpecList == InitList /\ [][NextList]_vars

(* ------------------------------ claims --------------------------------- *)

CallIds == 1..Len(calls)

Requests(c) == calls[c].puts + calls[c].lists + calls[c].deletes

\* C1: no putObject, listObjectsV2 or deleteObjects request is issued before
\* the provisioning operation has resolved, however many calls are issued
\* while it is pending, and headBucket and createBucket are each requested at
\* most once.
C1_WaitForProvisioning ==
  /\ \A c \in CallIds : Requests(c) > 0 => q = "resolved"
  /\ q \in {"none", "head", "create"} =>
       \A c \in CallIds : calls[c].pc = "wait" /\ calls[c].result = <<>>
  /\ headCount <= 1
  /\ createCount <= 1

\* Two calls issued while provisioning was pending have both sent their
\* request after it resolved.
C1_Witness ==
  /\ Len(calls) = 2
  /\ \A c \in CallIds : calls[c].early /\ Requests(c) > 0
  /\ headCount = 1
  /\ createCount = 1

\* C2: once createBucket has failed after headBucket failed, no call of the
\* instance ever sends a storage request, and every call whose callbacks have
\* run is rejected with the provisioning failure, whether it was issued
\* before or after the failure.
C2_ProvisionFailureReachesAll ==
  createResult = "fail" =>
    /\ headResult \in {"NotFound", "Other"}
    /\ q = "rejected"
    /\ \A c \in CallIds :
         /\ Requests(c) = 0
         /\ calls[c].result = <<>>
         /\ \/ calls[c].pc = "wait" /\ \E i \in 1..Len(waiters) : waiters[i] = c
            \/ calls[c].pc = "rejected" /\ calls[c].error = "CreateBucketError"

\* Provisioning failed; a call issued before the failure and a call issued
\* after it are both rejected with it.
C2_Witness ==
  /\ createResult = "fail"
  /\ \E c, d \in CallIds :
       /\ calls[c].early /\ ~calls[d].early
       /\ calls[c].op # calls[d].op
       /\ calls[c].pc = "rejected" /\ calls[d].pc = "rejected"

SeqSet(seq) == {seq[i] : i \in 1..Len(seq)}

NoRepeat(seq) == \A i, j \in 1..Len(seq) : seq[i] = seq[j] => i = j

IsRemove(c) == calls[c].op = "removeBuild"

\* The state part of C3: a removeBuild call lists once and deletes at most
\* once, its delete names exactly the listed keys that start with the build's
\* identifier, and it is rejected only with an error of the storage service.
C3_DeleteRequest ==
  \A c \in CallIds : IsRemove(c) =>
    /\ calls[c].lists <= 1 /\ calls[c].deletes <= 1 /\ calls[c].puts = 0
    /\ calls[c].deletes = 1 =>
         /\ SeqSet(calls[c].keys) =
              {k \in SeqSet(calls[c].listed) :
                 StartsWith(k, GetBuildId(calls[c].build))}
         /\ NoRepeat(calls[c].keys)
    /\ calls[c].pc = "resolved" => calls[c].deletes = 1
    /\ calls[c].pc = "rejected" =>
         calls[c].error \in {"CreateBucketError", "ListObjectsError",
                             "DeleteObjectsError"}
    /\ (calls[c].pc = "rejected" /\ calls[c].deletes = 0 /\ calls[c].lists = 1) =>
         calls[c].error = "ListObjectsError"

\* The step part of C3: after a listing in which no key matches, the delete
\* is sent with no key, and when the service accepts it the call resolves
\* and the bucket is left as it was.
C3_EmptyDelete ==
  \A c \in CallIds : IsRemove(c) =>
    /\ (calls[c].pc = "list" /\ calls'[c].pc # "list"
          /\ ~\E k \in Keys(objects) : StartsWith(k, GetBuildId(calls[c].build))) =>
         \/ calls'[c].pc = "rejected" /\ calls'[c].error = "ListObjectsError"
         \/ calls'[c].pc = "delete" /\ calls'[c].keys = <<>>
    /\ (calls[c].pc = "delete" /\ calls[c].keys = <<>> /\ calls'[c].pc = "resolved") =>
         objects' = objects

\* C3: removeBuild issues one batch delete, of exactly the listed keys that
\* are prefixed by the build's identifier; when none is, the delete is empty,
\* the operation adds no failure of its own and the bucket is unchanged.
C3_RemoveDeletesThePrefix == []C3_DeleteRequest /\ [][C3_EmptyDelete]_vars

\* A removeBuild that deleted some of the listed keys and not others, and a
\* removeBuild that matched none of the keys it listed, have both resolved.
C3_Witness ==
  \E c, d \in CallIds :
    /\ IsRemove(c) /\ IsRemove(d)
    /\ calls[c].pc = "resolved" /\ calls[d].pc = "resolved"
    /\ calls[c].keys # <<>> /\ Len(calls[c].keys) < Len(calls[c].listed)
    /\ calls[d].keys = <<>> /\ calls[d].listed # <<>>

\* The first path segment of a key: its longest prefix without a slash.
SegmentOf(key) ==
  LET n == CHOOSE m \in 0..Len(key) :
             /\ \A i \in 1..m : key[i] # Slash
             /\ m = Len(key) \/ key[m + 1] = Slash
  IN SubSeq(key, 1, n)

\* The BuildIdentifier pattern word-word-word-wordish: three hyphens cut the
\* string into four non-empty groups, the first three of word characters and
\* the last of word characters and dots.
IsBuildIdentifier(s) ==
  \E h1, h2, h3 \in 1..Len(s) :
    /\ 1 < h1 /\ h1 + 1 < h2 /\ h2 + 1 < h3 /\ h3 < Len(s)
    /\ s[h1] = Hyphen /\ s[h2] = Hyphen /\ s[h3] = Hyphen
    /\ \A i \in 1..(h3 - 1) : i \notin {h1, h2} => s[i] \in WordChars
    /\ \A i \in (h3 + 1)..Len(s) : s[i] \in WordChars \cup {Dot}

\* The place where a segment first appears in a listing.
FirstAt(listed, seg) ==
  CHOOSE i \in 1..Len(listed) :
    /\ SegmentOf(listed[i]) = seg
    /\ \A j \in 1..(i - 1) : SegmentOf(listed[j]) # seg

\* C4: fetchBuildsList returns the first path segments of the listed keys
\* that match the BuildIdentifier pattern, each exactly once, in the order
\* in which they first appear; other keys contribute nothing.
C4_FetchBuildsList ==
  \A c \in CallIds :
    (calls[c].op = "fetchBuildsList" /\ calls[c].pc = "resolved") =>
      LET listed == calls[c].listed
          builds == calls[c].result
      IN /\ SeqSet(builds) =
              {SegmentOf(k) : k \in {x \in SeqSet(listed) :
                                       IsBuildIdentifier(SegmentOf(x))}}
         /\ NoRepeat(builds)
         /\ \A i, j \in 1..Len(builds) :
              i < j => FirstAt(listed, builds[i]) < FirstAt(listed, builds[j])
         /\ calls[c].lists = 1 /\ calls[c].puts = 0 /\ calls[c].deletes = 0

\* A listing of a file of BuildX, a file of BuildX6 and another file of
\* BuildX, in that order, gave the two builds once each, BuildX first.
C4_Witness ==
  \E c \in CallIds :
    /\ calls[c].pc = "resolved"
    /\ Len(calls[c].listed) = 3
    /\ SegmentOf(calls[c].listed[1]) = GetBuildId(BuildX)
    /\ SegmentOf(calls[c].listed[2]) = GetBuildId(BuildX6)
    /\ SegmentOf(calls[c].listed[3]) = GetBuildId(BuildX)
    /\ calls[c].result = <<GetBuildId(BuildX), GetBuildId(BuildX6)>>

\* The spec's example identifier has a dot in its second group, as
\* "a-1.6-w-x" has: the pattern rejects it, and a listing of its files alone
\* gives no build.
C4_DottedVersionListed ==
  \E c \in CallIds :
    /\ calls[c].pc = "resolved"
    /\ calls[c].listed = << <<"a", "-", "1", ".", "6", "-", "w", "-", "x", "/", "f">> >>
    /\ calls[c].result = <<>>

Raw == commandOptions.transport

Constructed == phase \in {"constructed", "inited"}

\* What construction guarantees whether the credentials are read at the top
\* level or after the merge: a failure precedes every storage request, and a
\* transport has both credentials, a bucket descriptor with a name, the name
\* of a bare string, and <packageName>-updates for an absent bucket.
ConfigOutcome ==
  /\ phase = "failed" =>
       /\ options.error # "none"
       /\ q = "none" /\ headCount = 0 /\ createCount = 0
  /\ Constructed =>
       /\ options.error = "none"
       /\ Truthy(options.aws.accessKeyId)
       /\ Truthy(options.aws.secretAccessKey)
       /\ options.bucket.kind = "object"
       /\ Truthy(options.bucket.name)
       /\ (Raw.bucket.kind = "string" /\ Truthy(Raw.bucket.name)) =>
            options.bucket.name = Raw.bucket.name
       /\ Raw.bucket.kind = "absent" =>
            options.bucket.name = <<commandOptions.packageName \o UpdatesSuffix>>
       /\ Raw.bucket.kind = "object" => options.bucket = Raw.bucket

\* C5 as stated: construction fails whenever the configuration's accessKeyId
\* or secretAccessKey is missing.
C5_Original ==
  /\ ConfigOutcome
  /\ (phase # "new" /\ (~Truthy(Raw.accessKeyId) \/ ~Truthy(Raw.secretAccessKey))) =>
       phase = "failed"

\* A credential as the provider options leave it: the one in aws when aws
\* has the property, the top-level one otherwise.
Effective(top, inAws) == IF inAws = <<>> THEN top ELSE inAws

\* C5, amended: construction fails exactly when a credential is missing or
\* empty after the aws options are merged over the top-level credentials, or
\* the bucket descriptor has no name; otherwise it yields the configuration
\* described by ConfigOutcome.
C5_ConfigNormalized ==
  /\ ConfigOutcome
  /\ phase # "new" =>
       (phase = "failed" <=>
          \/ ~Truthy(Effective(Raw.accessKeyId, Raw.aws.accessKeyId))
          \/ ~Truthy(Effective(Raw.secretAccessKey, Raw.aws.secretAccessKey))
          \/ Raw.bucket.kind = "object" /\ ~Truthy(Raw.bucket.name))
  /\ Constructed =>
       /\ options.aws.accessKeyId = Effective(Raw.accessKeyId, Raw.aws.accessKeyId)
       /\ options.aws.secretAccessKey =
            Effective(Raw.secretAccessKey, Raw.aws.secretAccessKey)

\* A transport constructed, and initialized, from a configuration with no
\* top-level accessKeyId: the credential came with the aws options.
C5_Witness ==
  /\ phase = "inited"
  /\ headCount = 1
  /\ Raw.accessKeyId = <<>>
  /\ Raw.aws.accessKeyId = << <<"k">> >>
  /\ Raw.bucket.kind = "string"

IsUpload(c) == calls[c].op = "uploadFile"

\* The base name of the path of a file: what follows its last slash.
BaseOf(filePath) ==
  LET n == CHOOSE m \in 0..Len(filePath) :
             /\ m = 0 \/ filePath[m] = Slash
             /\ \A i \in (m + 1)..Len(filePath) : filePath[i] # Slash
  IN SubSeq(filePath, n + 1, Len(filePath))

\* The name under which a file is stored: its normalized base name, which is
\* "f" for "/d/f" and "g-h" for "g h".
StoredName(filePath) == NormalizeFileName(BaseOf(filePath))

\* C6: uploadFile sends at most one putObject, to <BuildIdentifier>/<name>;
\* when it succeeds the call resolves to the object's public URL, and when it
\* fails the call is rejected with the storage error and has no URL.
C6_UploadOnce ==
  \A c \in CallIds : IsUpload(c) =>
    /\ calls[c].puts <= 1 /\ calls[c].lists = 0 /\ calls[c].deletes = 0
    /\ calls[c].key =
         GetBuildId(calls[c].build) \o <<"/">> \o StoredName(calls[c].filePath)
    /\ calls[c].pc = "resolved" =>
         /\ calls[c].puts = 1
         /\ calls[c].result =
              <<"https://">> \o commandOptions.packageName \o UpdatesSuffix
                \o <<".s3.amazonaws.com/">> \o calls[c].key
    /\ calls[c].pc = "rejected" =>
         /\ calls[c].result = <<>>
         /\ calls[c].error =
              IF calls[c].puts = 1 THEN "PutObjectError" ELSE "CreateBucketError"

\* The step part of C6: the object a successful putObject stores is the file,
\* under the key of the request.
C6_Stored ==
  \A c \in CallIds :
    (IsUpload(c) /\ calls[c].pc = "put" /\ calls'[c].pc = "resolved") =>
      /\ calls[c].key \in Keys(objects')
      /\ objects'[calls[c].key] = <<"file">> \o calls[c].filePath

\* C6: uploadFile sends exactly one putObject, to the key
\* <BuildIdentifier>/<normalized basename>, and resolves to the public URL of
\* that key with the file stored under it, or is rejected with the request's
\* error.
C6_UploadFile == []C6_UploadOnce /\ [][C6_Stored]_vars

\* The upload of "/d/f" has resolved to the URL of <BuildIdentifier>/f, and
\* the upload of "g h", to <BuildIdentifier>/g-h, was rejected when its only
\* putObject failed.
C6_Witness ==
  \E c, d \in CallIds :
    /\ IsUpload(c) /\ IsUpload(d)
    /\ calls[c].filePath = <<"/", "d", "/", "f">>
    /\ calls[c].key = GetBuildId(calls[c].build) \o <<"/", "f">>
    /\ calls[c].pc = "resolved" /\ calls[c].result # <<>>
    /\ calls[d].key = GetBuildId(calls[d].build) \o <<"/", "g", "-", "h">>
    /\ calls[d].pc = "rejected" /\ calls[d].puts = 1

PushIds == {c \in CallIds : calls[c].op = "pushUpdatesJson"}

LastPush == CHOOSE c \in PushIds : \A d \in PushIds : d <= c

\* The pretty-printed JSON text of a manifest { "f": n }, written out.
ManifestText(data) ==
  <<"{", "\n", " ", " ", "\"", "f", "\"", ":", " ", data[1][2], "\n", "}">>

AllPushesResolved ==
  /\ PushIds # {}
  /\ \A c \in PushIds : calls[c].pc = "resolved"

\* pushUpdatesJson writes updates.json and no other key.
PushWritesManifestOnly ==
  \A c \in PushIds :
    /\ calls[c].puts <= 1 /\ calls[c].lists = 0 /\ calls[c].deletes = 0
    /\ calls[c].puts = 1 =>
         /\ calls[c].key = UpdatesJsonKey
         /\ calls[c].body = ManifestText(calls[c].data)

\* C7 as stated: after the pushUpdatesJson calls have completed, issued
\* concurrently or not, the stored manifest is the serialization of the data
\* of the most recently issued call.
C7_Original ==
  /\ PushWritesManifestOnly
  /\ AllPushesResolved =>
       /\ UpdatesJsonKey \in Keys(objects)
       /\ objects[UpdatesJsonKey] = ManifestText(calls[LastPush].data)

\* C7, amended: after the pushUpdatesJson calls have completed the stored
\* manifest is the serialization of the data of one of them, and of the most
\* recently issued one when no two of them were in flight at the same time.
C7_ManifestIsLatest ==
  /\ PushWritesManifestOnly
  /\ AllPushesResolved =>
       /\ UpdatesJsonKey \in Keys(objects)
       /\ \E c \in PushIds : objects[UpdatesJsonKey] = ManifestText(calls[c].data)
       /\ (\A c \in PushIds : ~calls[c].overlapped) =>
            objects[UpdatesJsonKey] = ManifestText(calls[LastPush].data)

\* Two pushes of different manifests, the second issued after the first had
\* completed, have both resolved.
C7_Witness ==
  /\ AllPushesResolved
  /\ Cardinality(PushIds) = 2
  /\ \A c \in PushIds : ~calls[c].overlapped
  /\ calls[1].data # calls[2].data

\* C8 as stated: createBucket is requested only after headBucket failed, and
\* a headBucket failure for a reason other than the bucket's absence is not
\* turned into a successful provisioning.
C8_Original ==
  /\ createCount > 0 => headResult \in {"NotFound", "Other"}
  /\ headResult = "ok" => createCount = 0
  /\ headResult = "Other" => q # "resolved"

\* C8, amended: createBucket is requested exactly when headBucket has failed,
\* for whatever reason; provisioning succeeds exactly when headBucket or
\* createBucket succeeded, and a createBucket failure is never swallowed.
C8_ProvisioningOutcome ==
  /\ createCount > 0 <=> headResult \in {"NotFound", "Other"}
  /\ headResult = "ok" => createCount = 0 /\ createResult = "none"
  /\ q = "resolved" <=> (headResult = "ok" \/ createResult = "ok")
  /\ q = "rejected" <=> createResult = "fail"
  /\ createResult # "none" => createCount = 1

\* headBucket failed for a reason other than the bucket's absence, the
\* bucket was created, and a call has stored an object since.
C8_Witness ==
  /\ headResult = "Other"
  /\ createResult = "ok"
  /\ q = "resolved"
  /\ \E c \in CallIds : calls[c].pc = "resolved" /\ calls[c].puts = 1

\* C9: every key of removeBuild's delete request has the build's identifier
\* as its first path segment.
C9_RemoveOnlyOwnBuild ==
  \A c \in CallIds : (IsRemove(c) /\ calls[c].deletes = 1) =>
    \A i \in 1..Len(calls[c].keys) :
      SegmentOf(calls[c].keys[i]) = GetBuildId(calls[c].build)

HoldsPrefix(objs, build) == \E k \in Keys(objs) : StartsWith(k, GetBuildId(build))

\* C10 as stated: at the step at which removeBuild resolves, the bucket
\* holds no object whose key is prefixed by the build's identifier.
C10_RemoveStep ==
  \A c \in CallIds :
    (IsRemove(c) /\ calls[c].pc = "delete" /\ calls'[c].pc = "resolved") =>
      ~HoldsPrefix(objects', calls[c].build)

\* C10 as stated: when removeBuild resolves, the bucket holds no object under
\* the build's identifier.
C10_Original == [][C10_RemoveStep]_vars

\* C10, amended: once removeBuild has resolved, the bucket holds an object
\* prefixed by the build's identifier only if a putObject of such a key was
\* applied after removeBuild's listing.
C10_RemovedUnlessRaced ==
  \A c \in CallIds :
    (IsRemove(c) /\ calls[c].pc = "resolved") =>
      /\ HoldsPrefix(objects, calls[c].build) => calls[c].raced
      /\ \A i \in 1..Len(calls[c].keys) :
           calls[c].keys[i] \in Keys(objects) => calls[c].raced

\* removeBuild has resolved after deleting the keys it listed, while the
\* object of an uploadFile for the same build, issued before it resolved and
\* stored between its listing and its delete, is in the bucket.
C10_Witness ==
  \E c, d \in CallIds :
    /\ IsRemove(c) /\ IsUpload(d)
    /\ calls[c].pc = "resolved" /\ calls[c].keys # <<>> /\ calls[c].raced
    /\ calls[d].pc = "resolved" /\ calls[d].build = calls[c].build
    /\ calls[d].key \in Keys(objects)
    /\ calls[d].key \notin SeqSet(calls[c].keys)

=============================================================================
